---- MODULE Spec2Model ----
(***************************************************************************)
(* The constraint circuits of tornado-halo2 (src/chips, src/circuits,      *)
(* src/main.rs) as a state machine: one synthesis pass lays regions out on *)
(* a grid of three advice columns, region by region, and the mock prover   *)
(* then checks every gate, every copy constraint and every public binding *)
(* of the finished assignment.                                             *)
(*                                                                         *)
(* The chips are generic in F: PrimeField.  The model runs them over the   *)
(* prime field of FieldModulus elements, where every field value can be    *)
(* enumerated, and runs the repository's own test vectors over the prime   *)
(* field of ScenarioModulus elements, which is large enough that           *)
(* Fp::from is injective on every integer the tests use (as it is in       *)
(* pasta::Fp).                                                             *)
(***************************************************************************)
EXTENDS Integers, Sequences, FiniteSets, TLC

\* The small instance of F: PrimeField (a prime, so that F is a field).
FieldModulus == 3
\* A prime above every integer of the test vectors of src/circuits.
ScenarioModulus == 1299709
\* Longest path_elements / path_indices of a MerkleCircuit run.
MaxDepth == 2
\* Longest path_elements / path_indices of a TornadoCircuit run.
MaxMixerDepth == 1

VARIABLES
    modulus,      \* the field F the run is instantiated with
    kind,         \* which Circuit is synthesized
    witness,      \* the fields of the circuit struct
    prover,       \* the values the prover's closures hand to compute_hash
    layouter,     \* columns, cells, selectors, copy constraints, bindings
    pc,           \* position in synthesize
    digest,       \* prove_tree_root: the running digest cell
    i,            \* prove_tree_root: the loop index
    nrun,         \* 1 for the first MockProver::run, 2 for the repeated one
    prev,         \* the layouter the first run ended with
    public,       \* the instance column handed to MockProver::run
    verdict,      \* the outcome of prover.verify() for this run
    prev_verdict  \* the outcome of prover.verify() for the first run

vars == <<modulus, kind, witness, prover, layouter, pc, digest, i, nrun, prev,
          public, verdict, prev_verdict>>

-----------------------------------------------------------------------------
(* Field arithmetic of F (halo2curves::ff::PrimeField)                      *)

\* Fp::from(n)
Fp(n) == n % modulus

FAdd(x, y) == (x + y) % modulus

FSub(x, y) == ((x - y) + modulus) % modulus

\* x * y modulo m, by doubling, so that no intermediate leaves 32 bits.
MulMod[m \in Nat, x \in Nat, y \in Nat] ==
    IF y = 0 THEN 0
    ELSE LET d == (2 * MulMod[m, x, y \div 2]) % m
         IN  IF y % 2 = 1 THEN (d + x) % m ELSE d

FMul(x, y) == MulMod[modulus, x, y]

-----------------------------------------------------------------------------
(* The layouter: SimpleFloorPlanner over three advice columns               *)

AdviceColumns == {"advice0", "advice1", "advice2"}

Selectors == {"hash_selector", "merkle_hash_selector",
              "swap_selector", "swap_bit_bool_selector"}

Columns == AdviceColumns \cup Selectors

NoCell == <<3, 0>>

NoPublic == <<>>

EmptyLayouter ==
    [columns   |-> [c \in Columns |-> 0],
     advice    |-> [c \in {} |-> 0],
     selectors |-> [s \in Selectors |-> {}],
     copies    |-> {},
     instance  |-> {},
     regions   |-> <<>>,
     assigned  |-> <<>>]

SetMax(S) == CHOOSE m \in S : \A n \in S : n <= m

\* The first row at which none of the region's columns is in use.
RegionStart(L, cols) == SetMax({L.columns[c] : c \in cols})

\* The region is recorded and its columns are marked used up to its end.
place_region(L, name, cols, start, rows) ==
    [L EXCEPT !.columns = [c \in Columns |->
                              IF c \in cols THEN start + rows ELSE @[c]],
              !.regions = Append(@, [name |-> name, start |-> start, rows |-> rows])]

assign_advice(L, col, row, v) ==
    [L EXCEPT !.advice   = (<<col, row>> :> v) @@ @,
              !.assigned = Append(@, <<col, row>>)]

\* Mutant: the value is assigned as a fresh witness, with no constraint.
copy_advice_unconstrained(L, cell, col, row) ==
    [L EXCEPT !.advice   = (<<col, row>> :> @[cell]) @@ @,
              !.assigned = Append(@, <<col, row>>)]

\* AssignedCell::copy_advice: the cell's value goes to (col, row) and the two
\* cells are constrained equal.
copy_advice(L, cell, col, row) ==
    [L EXCEPT !.advice   = (<<col, row>> :> @[cell]) @@ @,
              !.assigned = Append(@, <<col, row>>),
              !.copies   = @ \cup {<<cell, <<col, row>>>>}]

\* Mutant: the selector is enabled one row too low.
enable_next_row(L, sel, row) == [L EXCEPT !.selectors[sel] = @ \cup {row + 1}]

enable(L, sel, row) == [L EXCEPT !.selectors[sel] = @ \cup {row}]

\* Mutant: the binding is never registered.
constrain_instance_unbound(L, cell, slot) == L

\* Mutant: the two public slots are exchanged.
constrain_instance_exchanged(L, cell, slot) ==
    [L EXCEPT !.instance = @ \cup {<<cell, 1 - slot>>}]

constrain_instance(L, cell, slot) ==
    [L EXCEPT !.instance = @ \cup {<<cell, slot>>}]

-----------------------------------------------------------------------------
(* chips/hash.rs                                                            *)

\* Value<F>: a field element, or unknown when the circuit value carries no
\* witness (without_witnesses, key generation).
Unknown == -1

\* Value::known(F::from(n)) for a number, Value::unknown() kept.
ValueOf(n) == IF n = Unknown THEN Unknown ELSE Fp(n)

\* Mutant: the output is the sum of the inputs.
hash_output_sum(left, right) == FAdd(left, right)

\* Mutant: an unknown operand counts as zero.
hash_output_default(left, right) ==
    IF left = Unknown /\ right = Unknown THEN Unknown
    ELSE FMul(IF left = Unknown THEN 0 ELSE left, IF right = Unknown THEN 0 ELSE right)

\* The value assigned to the output cell: the product of two Value<F>, which
\* is unknown as soon as one of them is.
hash_output(left, right) ==
    IF left = Unknown \/ right = Unknown THEN Unknown ELSE FMul(left, right)

\* HashChip::hash: one row, the two inputs copied in, the output assigned.
\* (M is the layouter the call starts from, taken once.)
hash(L, sel, left_cell, right_cell) ==
    LET cols == {sel} \cup AdviceColumns
        region(M, row) ==
            LET L1 == enable(M, sel, row)
                L2 == copy_advice(L1, left_cell, 0, row)
                L3 == copy_advice(L2, right_cell, 1, row)
                L4 == assign_advice(L3, 2, row,
                                    hash_output(M.advice[left_cell], M.advice[right_cell]))
            IN  [layouter |-> place_region(L4, "hash row", cols, row, 1),
                 cell     |-> <<2, row>>]
    IN  CHOOSE h \in {region(M, RegionStart(M, cols)) : M \in {L}} : TRUE

\* Mutant: the gate constrains the sum of the inputs.
hash_constraint_sum(s, a, b, hash_result) == FMul(s, FSub(FAdd(a, b), hash_result))

\* The polynomial of the gate "hash constraint".
hash_constraint(s, a, b, hash_result) == FMul(s, FSub(FMul(a, b), hash_result))

-----------------------------------------------------------------------------
(* chips/merkle.rs                                                          *)

\* Mutant: a range check that also lets 2 through.
bool_constraint_upto2(s, swap_bit) ==
    FMul(FMul(FMul(s, swap_bit), FSub(Fp(1), swap_bit)), FSub(Fp(2), swap_bit))

\* Mutant: the range polynomial has 1 + bit for 1 - bit.
bool_constraint_plus(s, swap_bit) == FMul(FMul(s, swap_bit), FAdd(Fp(1), swap_bit))

\* The polynomial of the gate "bool constraint".
bool_constraint(s, swap_bit) == FMul(FMul(s, swap_bit), FSub(Fp(1), swap_bit))

\* Mutant: the difference of the first identity is taken the other way round.
swap_constraint1_reversed(s, left_cur, right_cur, swap_bit, left_next) ==
    FMul(s, FSub(FAdd(FMul(FSub(left_cur, right_cur), swap_bit), left_cur), left_next))

\* The two polynomials of the gate "swap constraint".
swap_constraint1(s, left_cur, right_cur, swap_bit, left_next) ==
    FMul(s, FSub(FAdd(FMul(FSub(right_cur, left_cur), swap_bit), left_cur), left_next))

swap_constraint2(s, left_cur, right_cur, swap_bit, right_next) ==
    FMul(s, FSub(FAdd(FMul(FSub(left_cur, right_cur), swap_bit), right_cur), right_next))

\* Mutant: the branches of the swap are exchanged.
swap_pair_inverted(node, neighbor, swap_bit) ==
    IF swap_bit = 0 THEN <<neighbor, node>> ELSE <<node, neighbor>>

\* The pair handed to the hash: swapped unless the bit is zero.
swap_pair(node, neighbor, swap_bit) ==
    IF swap_bit = 0 THEN <<node, neighbor>> ELSE <<neighbor, node>>

\* Mutant: the pair for the hash is assigned at offset 0, over the inputs.
merkle_prove_layer_offset0(L, node_cell, neighbor, swap_bit) ==
    LET cols == {"swap_selector", "swap_bit_bool_selector"} \cup AdviceColumns
        region(M, row) ==
            LET L1   == enable(M, "swap_selector", row)
                L2   == enable(L1, "swap_bit_bool_selector", row)
                L3   == copy_advice(L2, node_cell, 0, row)
                L4   == assign_advice(L3, 1, row, neighbor)
                L5   == assign_advice(L4, 2, row, swap_bit)
                pair == swap_pair(M.advice[node_cell], neighbor, swap_bit)
                L6   == assign_advice(L5, 0, row, pair[1])
                L7   == assign_advice(L6, 1, row, pair[2])
                L8   == place_region(L7, "merkle prove", cols, row, 2)
            IN  hash(L8, "merkle_hash_selector", <<0, row>>, <<1, row>>)
    IN  CHOOSE h \in {region(M, RegionStart(M, cols)) : M \in {L}} : TRUE

\* MerkleChip::merkle_prove_layer: the two-row swap region, then the hash row.
merkle_prove_layer(L, node_cell, neighbor, swap_bit) ==
    LET cols == {"swap_selector", "swap_bit_bool_selector"} \cup AdviceColumns
        region(M, row) ==
            LET L1   == enable(M, "swap_selector", row)
                L2   == enable(L1, "swap_bit_bool_selector", row)
                L3   == copy_advice(L2, node_cell, 0, row)
                L4   == assign_advice(L3, 1, row, neighbor)
                L5   == assign_advice(L4, 2, row, swap_bit)
                pair == swap_pair(M.advice[node_cell], neighbor, swap_bit)
                L6   == assign_advice(L5, 0, row + 1, pair[1])
                L7   == assign_advice(L6, 1, row + 1, pair[2])
                L8   == place_region(L7, "merkle prove", cols, row, 2)
            IN  hash(L8, "merkle_hash_selector", <<0, row + 1>>, <<1, row + 1>>)
    IN  CHOOSE h \in {region(M, RegionStart(M, cols)) : M \in {L}} : TRUE

-----------------------------------------------------------------------------
(* chips/tornado.rs                                                         *)

\* TornadoChip::compute_hash: the two values in a fresh row, then the hash row.
compute_hash(L, left_value, right_value) ==
    LET cols == {"advice0", "advice1"}
        region(M, row) ==
            LET L1 == assign_advice(M, 0, row, left_value)
                L2 == assign_advice(L1, 1, row, right_value)
                L3 == place_region(L2, "compute hash", cols, row, 1)
            IN  hash(L3, "hash_selector", <<0, row>>, <<1, row>>)
    IN  CHOOSE h \in {region(M, RegionStart(M, cols)) : M \in {L}} : TRUE

-----------------------------------------------------------------------------
(* main.rs: the reference computation of the root                           *)

\* Mutant: a combination that tells left from right.
hash_values_ordered(left, right) == FAdd(FMul(left, left), right)

hash_values(left, right) == FMul(left, right)

hash_value(value) == hash_values(value, value)

RECURSIVE compute_root_from(_, _, _, _)
compute_root_from(node, path_elements, path_indices, k) ==
    IF k > Len(path_elements) THEN node
    ELSE LET left  == IF path_indices[k] = 0 THEN node ELSE path_elements[k]
             right == IF path_indices[k] = 0 THEN path_elements[k] ELSE node
         IN  compute_root_from(hash_values(left, right), path_elements, path_indices, k + 1)

compute_root(leaf, path_elements, path_indices) ==
    compute_root_from(leaf, path_elements, path_indices, 1)

-----------------------------------------------------------------------------
(* MockProver::verify over the finished assignment                          *)

Assigned(L, cell) == cell \in DOMAIN L.advice

\* An unassigned cell evaluates to zero.
CellValue(L, col, row) ==
    IF Assigned(L, <<col, row>>) THEN L.advice[<<col, row>>] ELSE 0

SelectorValue(L, sel, row) == IF row \in L.selectors[sel] THEN 1 ELSE 0

Rows(L) == 0 .. SetMax({L.columns[c] : c \in Columns})

\* A gate whose selector is on must find every cell it queries assigned.
QueriedAssigned(L, sel, cells) ==
    \A row \in L.selectors[sel] :
        \A q \in cells : Assigned(L, <<q[1], row + q[2]>>)

HashGateHolds(L, sel) ==
    /\ QueriedAssigned(L, sel, {<<0, 0>>, <<1, 0>>, <<2, 0>>})
    /\ \A row \in Rows(L) :
          hash_constraint(SelectorValue(L, sel, row), CellValue(L, 0, row),
                          CellValue(L, 1, row), CellValue(L, 2, row)) = 0

BoolGateHolds(L) ==
    /\ QueriedAssigned(L, "swap_bit_bool_selector", {<<2, 0>>})
    /\ \A row \in Rows(L) :
          bool_constraint(SelectorValue(L, "swap_bit_bool_selector", row),
                          CellValue(L, 2, row)) = 0

SwapGateHolds(L) ==
    /\ QueriedAssigned(L, "swap_selector",
                       {<<0, 0>>, <<1, 0>>, <<2, 0>>, <<0, 1>>, <<1, 1>>})
    /\ \A row \in Rows(L) :
          LET s == SelectorValue(L, "swap_selector", row)
          IN  /\ swap_constraint1(s, CellValue(L, 0, row), CellValue(L, 1, row),
                                  CellValue(L, 2, row), CellValue(L, 0, row + 1)) = 0
              /\ swap_constraint2(s, CellValue(L, 0, row), CellValue(L, 1, row),
                                  CellValue(L, 2, row), CellValue(L, 1, row + 1)) = 0

\* The gates the circuit's configure created.
GatesHold(L, circuit) ==
    /\ circuit \in {"HashCircuit", "TornadoCircuit"} => HashGateHolds(L, "hash_selector")
    /\ circuit \in {"MerkleCircuit", "TornadoCircuit"} =>
          /\ BoolGateHolds(L)
          /\ SwapGateHolds(L)
          /\ HashGateHolds(L, "merkle_hash_selector")

CopiesHold(L) ==
    \A c \in L.copies : CellValue(L, c[1][1], c[1][2]) = CellValue(L, c[2][1], c[2][2])

\* An instance row beyond the values supplied holds zero.
InstanceValue(p, slot) == IF slot < Len(p) THEN p[slot + 1] ELSE 0

BindingsHold(L, p) ==
    \A b \in L.instance : CellValue(L, b[1][1], b[1][2]) = InstanceValue(p, b[2])

verify(L, circuit, p) == GatesHold(L, circuit) /\ CopiesHold(L) /\ BindingsHold(L, p)

Outcome(L, circuit, p) == IF verify(L, circuit, p) THEN "ok" ELSE "err"

-----------------------------------------------------------------------------
(* The runs explored                                                        *)

Field == 0 .. (FieldModulus - 1)

PathsUpTo(n) == UNION {[1 .. k -> Field] : k \in 0 .. n}

\* The prover that passes self.nullifier wherever synthesize reads it.
HonestProver(n) == [nullifier_right |-> n, commitment_left |-> n]

NoProver == [nullifier_right |-> 0, commitment_left |-> 0]

\* circuits/hash.rs, test_hash_circuit
HashScenario == [a |-> 11, b |-> 7]

\* circuits/merkle.rs, test_merkle_circuit and test_merkle_circuit_err
MerkleScenarios ==
    {[leaf |-> 123, path_elements |-> <<2, 7, 6, 5, 5, 4>>, path_indices |-> idx] :
        idx \in {<<0, 1, 1, 0, 1, 0>>, <<0, 1, 1, 0, 1, 2>>}}

ScenarioPublic ==
    {<<123, r>> : r \in {1033200, 1033201, 723240, 723241}} \cup {<<77>>, <<78>>}

Slots == IF kind = "HashCircuit" THEN 1 ELSE 2

PublicInputs ==
    IF modulus = FieldModulus
    THEN [1 .. Slots -> Field]
    ELSE {p \in ScenarioPublic : Len(p) = Slots}

Start ==
    /\ layouter = EmptyLayouter
    /\ pc = "start"
    /\ digest = NoCell
    /\ i = 0
    /\ nrun = 1
    /\ prev = EmptyLayouter
    /\ public = NoPublic
    /\ verdict = "none"
    /\ prev_verdict = "none"

Init ==
    /\ Start
    /\ \/ /\ modulus = FieldModulus
          /\ \/ /\ kind = "HashCircuit"
                /\ witness \in [a : Field \cup {Unknown}, b : Field \cup {Unknown}]
                /\ prover = NoProver
             \/ /\ kind = "MerkleCircuit"
                /\ witness \in [leaf : Field,
                                path_elements : PathsUpTo(MaxDepth),
                                path_indices : PathsUpTo(MaxDepth)]
                /\ prover = NoProver
             \/ /\ kind = "TornadoCircuit"
                /\ witness \in [nullifier : Field, secret : Field,
                                path_elements : PathsUpTo(MaxMixerDepth),
                                path_indices : PathsUpTo(MaxMixerDepth)]
                /\ prover \in [nullifier_right : Field, commitment_left : Field]
       \/ /\ modulus = ScenarioModulus
          /\ prover = NoProver
          /\ \/ kind = "HashCircuit" /\ witness = HashScenario
             \/ kind = "MerkleCircuit" /\ witness \in MerkleScenarios

-----------------------------------------------------------------------------
(* The steps of synthesize                                                  *)

\* HashCircuit::synthesize.  A pass over a circuit value with an unknown
\* input is a pass that lays the circuit out and keeps no values to check
\* (key generation): it ends in "shaped" and is followed by no verify.
HashSynthesize ==
    /\ kind = "HashCircuit" /\ pc = "start"
    /\ LET cols == {"advice0", "advice1"}
           row  == RegionStart(layouter, cols)
           L1   == assign_advice(layouter, 0, row, ValueOf(witness.a))
           L2   == assign_advice(L1, 1, row, ValueOf(witness.b))
           L3   == place_region(L2, "private inputs", cols, row, 1)
       IN  \E h \in {hash(L3, "hash_selector", <<0, row>>, <<1, row>>)} :
              layouter' = constrain_instance(h.layouter, h.cell, 0)
    /\ pc' = IF Unknown \in {witness.a, witness.b} THEN "shaped" ELSE "synthesized"
    /\ UNCHANGED <<modulus, kind, witness, prover, digest, i, nrun, prev,
                   public, verdict, prev_verdict>>

\* MerkleCircuit::synthesize up to the call of prove_tree_root
MerkleAssignLeaf ==
    /\ kind = "MerkleCircuit" /\ pc = "start"
    /\ LET cols == {"advice0"}
           row  == RegionStart(layouter, cols)
           L1   == assign_advice(layouter, 0, row, Fp(witness.leaf))
           L2   == place_region(L1, "assign leaf", cols, row, 1)
       IN  /\ layouter' = constrain_instance(L2, <<0, row>>, 0)
           /\ digest' = <<0, row>>
    /\ i' = 0
    /\ pc' = "prove_tree_root"
    /\ UNCHANGED <<modulus, kind, witness, prover, nrun, prev,
                   public, verdict, prev_verdict>>

\* TornadoCircuit::synthesize, step 1: the nullifier hash and its binding
NullifierHash ==
    /\ kind = "TornadoCircuit" /\ pc = "start"
    /\ \E h \in {compute_hash(layouter, Fp(witness.nullifier), prover.nullifier_right)} :
          layouter' = constrain_instance(h.layouter, h.cell, 0)
    /\ pc' = "commitment"
    /\ UNCHANGED <<modulus, kind, witness, prover, digest, i, nrun, prev,
                   public, verdict, prev_verdict>>

\* TornadoCircuit::synthesize, step 2: the commitment, the leaf of the path
CommitmentHash ==
    /\ kind = "TornadoCircuit" /\ pc = "commitment"
    /\ \E h \in {compute_hash(layouter, prover.commitment_left, Fp(witness.secret))} :
          /\ layouter' = h.layouter
          /\ digest' = h.cell
    /\ i' = 0
    /\ pc' = "prove_tree_root"
    /\ UNCHANGED <<modulus, kind, witness, prover, nrun, prev,
                   public, verdict, prev_verdict>>

\* Mutant: the loop returns an error at a bit that is not 0 or 1.
ProveLayerChecked ==
    /\ pc = "prove_tree_root"
    /\ i < Len(witness.path_elements)
    /\ i < Len(witness.path_indices)
    /\ IF Fp(witness.path_indices[i + 1]) \in {0, 1}
       THEN \E h \in {merkle_prove_layer(layouter, digest,
                                         Fp(witness.path_elements[i + 1]),
                                         Fp(witness.path_indices[i + 1]))} :
               /\ layouter' = h.layouter
               /\ digest' = h.cell
               /\ i' = i + 1
               /\ pc' = pc
       ELSE /\ pc' = "failed"
            /\ UNCHANGED <<layouter, digest, i>>
    /\ UNCHANGED <<modulus, kind, witness, prover, nrun, prev,
                   public, verdict, prev_verdict>>

\* Mutant: the loop walks the path from its last pair to its first.
ProveLayerReversed ==
    /\ pc = "prove_tree_root"
    /\ i < Len(witness.path_elements)
    /\ i < Len(witness.path_indices)
    /\ \E h \in {merkle_prove_layer(layouter, digest,
                    Fp(witness.path_elements[Len(witness.path_elements) - i]),
                    Fp(witness.path_indices[Len(witness.path_indices) - i]))} :
          /\ layouter' = h.layouter
          /\ digest' = h.cell
    /\ i' = i + 1
    /\ UNCHANGED <<modulus, kind, witness, prover, pc, nrun, prev,
                   public, verdict, prev_verdict>>

\* prove_tree_root: one turn of the loop
ProveLayer ==
    /\ pc = "prove_tree_root"
    /\ i < Len(witness.path_elements)
    /\ i < Len(witness.path_indices)
    /\ \E h \in {merkle_prove_layer(layouter, digest,
                                      Fp(witness.path_elements[i + 1]),
                                      Fp(witness.path_indices[i + 1]))} :
          /\ layouter' = h.layouter
          /\ digest' = h.cell
    /\ i' = i + 1
    /\ UNCHANGED <<modulus, kind, witness, prover, pc, nrun, prev,
                   public, verdict, prev_verdict>>

\* prove_tree_root: path_indices[i] with i out of bounds panics
IndexPanic ==
    /\ pc = "prove_tree_root"
    /\ i < Len(witness.path_elements)
    /\ i >= Len(witness.path_indices)
    /\ pc' = "panicked"
    /\ UNCHANGED <<modulus, kind, witness, prover, layouter, digest, i, nrun, prev,
                   public, verdict, prev_verdict>>

\* prove_tree_root returns the digest; synthesize binds it to slot 1
ConstrainRoot ==
    /\ pc = "prove_tree_root"
    /\ i >= Len(witness.path_elements)
    /\ layouter' = constrain_instance(layouter, digest, 1)
    /\ pc' = "synthesized"
    /\ UNCHANGED <<modulus, kind, witness, prover, digest, i, nrun, prev,
                   public, verdict, prev_verdict>>

\* prover.verify() for the public input given to MockProver::run.  Synthesis
\* never reads the instance column, so the public input is drawn here.
Verify ==
    /\ pc = "synthesized"
    /\ \E p \in PublicInputs :
          /\ public' = p
          /\ verdict' = Outcome(layouter, kind, p)
          /\ prev_verdict' = IF nrun = 2 THEN Outcome(prev, kind, p) ELSE "none"
    /\ pc' = "verified"
    /\ UNCHANGED <<modulus, kind, witness, prover, layouter, digest, i, nrun, prev>>

\* A prover is free to put any values in the advice cells: the closures of
\* assign_advice are the prover's.  Here the two cells that one row holds in
\* columns 0 and 1 are replaced after an honest pass; selectors, copy
\* constraints and bindings are the circuit's and stay.
ForgeRow ==
    /\ pc = "synthesized"
    /\ nrun = 1
    /\ \E row \in {c[2] : c \in DOMAIN layouter.advice}, v0 \in Field, v1 \in Field :
          layouter' = [layouter EXCEPT !.advice =
                          [c \in DOMAIN @ |-> IF c = <<0, row>> THEN v0
                                              ELSE IF c = <<1, row>> THEN v1
                                              ELSE @[c]]]
    /\ pc' = "forged"
    /\ UNCHANGED <<modulus, kind, witness, prover, digest, i, nrun, prev,
                   public, verdict, prev_verdict>>

\* Mutant: the column cursors of the run before are kept.
NewRunKeepingColumns(L) == [EmptyLayouter EXCEPT !.columns = L.columns]

\* MockProver::run starts from a layouter of its own, whatever ran before.
NewRun(L) == EmptyLayouter

\* A second MockProver::run of the same circuit value
Rerun ==
    /\ pc = "synthesized"
    /\ nrun = 1
    /\ prev' = layouter
    /\ layouter' = NewRun(layouter)
    /\ nrun' = 2
    /\ pc' = "start"
    /\ digest' = NoCell
    /\ i' = 0
    /\ UNCHANGED <<modulus, kind, witness, prover, public, verdict, prev_verdict>>

Next ==
    \/ HashSynthesize
    \/ MerkleAssignLeaf
    \/ NullifierHash
    \/ CommitmentHash
    \/ ProveLayer
    \/ IndexPanic
    \/ ConstrainRoot
    \/ Verify
    \/ Rerun

Spec == Init /\ [][Next]_vars

\* A synthesis pass and the check after it are one sequential run of the
\* program: a step that can be taken is taken.  The runs are those of the
\* circuit as written, with self.nullifier wherever synthesize reads it.
FairInit == Init /\ (kind = "TornadoCircuit" => prover = HonestProver(witness.nullifier))

FairSpec == FairInit /\ [][Next]_vars /\ WF_vars(Next)

\* The assignments a prover can submit for the Merkle circuit: the grid of a
\* pass over a path of equal-length sequences, with one row of the prover's
\* own choosing.
ForgeInit ==
    /\ Start
    /\ modulus = FieldModulus
    /\ kind = "MerkleCircuit"
    /\ prover = NoProver
    /\ witness \in [leaf : Field,
                    path_elements : PathsUpTo(MaxDepth),
                    path_indices : PathsUpTo(MaxDepth)]
    /\ Len(witness.path_elements) = Len(witness.path_indices)

ForgeNext ==
    \/ MerkleAssignLeaf
    \/ ProveLayer
    \/ ConstrainRoot
    \/ ForgeRow

ForgeSpec == ForgeInit /\ [][ForgeNext]_vars

-----------------------------------------------------------------------------
(* Vocabulary of the properties                                             *)

HasPath == kind \in {"MerkleCircuit", "TornadoCircuit"}

Done == pc \in {"synthesized", "verified"}

EqualLength == Len(witness.path_elements) = Len(witness.path_indices)

BooleanBits == \A k \in 1 .. Len(witness.path_indices) : witness.path_indices[k] \in {0, 1}

Honest == prover = HonestProver(witness.nullifier)

\* The regions synthesize lays out before prove_tree_root is called.
PrefixRegions == IF kind = "MerkleCircuit" THEN 1 ELSE 4

\* The swap region and the hash region of Merkle step k (k = 1 is the leaf's).
SwapRegion(k) == layouter.regions[PrefixRegions + 2 * k - 1]

HashRegion(k) == layouter.regions[PrefixRegions + 2 * k]

SwapBitCells == {<<2, row>> : row \in layouter.selectors["swap_selector"]}

NonBooleanBit == \E c \in SwapBitCells : layouter.advice[c] \notin {0, 1}

\* The other values a public slot holding x can be replaced by.
Replacements(x) ==
    IF modulus = FieldModulus THEN Field \ {x} ELSE {FAdd(x, 1), FSub(x, 1)}

\* The mixer's hash rows: the nullifier hash and the commitment.
NullifierRow == layouter.regions[2].start

CommitmentRow == layouter.regions[4].start

\* The rows on which the swap gate is active, and what they hold.
SwapRows == layouter.selectors["swap_selector"]

RowLeft(row) == layouter.advice[<<0, row>>]

RowRight(row) == layouter.advice[<<1, row>>]

RowBit(row) == layouter.advice[<<2, row>>]

\* Both identities of the swap gate, selector on, for the outputs given.
SwapIdentities(left, right, bit, left_next, right_next) ==
    /\ swap_constraint1(1, left, right, bit, left_next) = 0
    /\ swap_constraint2(1, left, right, bit, right_next) = 0

SwapRowHolds(row) ==
    SwapIdentities(RowLeft(row), RowRight(row), RowBit(row),
                   RowLeft(row + 1), RowRight(row + 1))

\* The cell handed to prove_tree_root as the leaf.
LeafCell ==
    IF kind = "MerkleCircuit" THEN <<0, layouter.regions[1].start>>
    ELSE <<2, CommitmentRow>>

\* The cell Merkle step k returns: the output cell of its hash row (the leaf
\* cell for k = 0).
StepDigest(k) == IF k = 0 THEN LeafCell ELSE <<2, HashRegion(k).start>>

\* The first k pairs of the path, as compute_root takes them.
Prefix(seq, k) == SubSeq(seq, 1, k)

\* The assignment passes the check for some public input.
Satisfying == \E p \in PublicInputs : verify(layouter, kind, p)

\* The pairs of cells Merkle step k wires: the cell returned by the step
\* before to its node cell, and its two row-1 outputs to the inputs of its
\* hash row.
StepWires(k) ==
    {<<StepDigest(k - 1), <<0, SwapRegion(k).start>>>>,
     <<<<0, SwapRegion(k).start + 1>>, <<0, HashRegion(k).start>>>>,
     <<<<1, SwapRegion(k).start + 1>>, <<1, HashRegion(k).start>>>>}

\* The cells assigned so far, and those among them in the rows of a region.
AssignedCells == {layouter.assigned[n] : n \in DOMAIN layouter.assigned}

RegionRows(r) == r.start .. (r.start + r.rows - 1)

RegionCells(r) == {c \in AssignedCells : c[2] \in RegionRows(r)}

\* The rows a selector is enabled on; the first rows of the regions of a name.
Enabled(sel) == layouter.selectors[sel]

FirstRows(name) ==
    {layouter.regions[k].start : k \in {n \in DOMAIN layouter.regions :
                                           layouter.regions[n].name = name}}

\* The selector of the hash chip a hash row belongs to: the Merkle chip's
\* own for the regions that follow a swap region, the mixer's otherwise.
HashRowsAfter(name) ==
    {layouter.regions[k].start : k \in {n \in DOMAIN layouter.regions :
        /\ n > 1
        /\ layouter.regions[n].name = "hash row"
        /\ layouter.regions[n - 1].name = name}}

\* The product of the elements of a path.
RECURSIVE product(_)
product(seq) == IF seq = <<>> THEN Fp(1) ELSE FMul(Fp(Head(seq)), product(Tail(seq)))

\* The bit sequences of a length with every bit 0 or 1.
BitSequences(n) == [1 .. n -> {0, 1}]

-----------------------------------------------------------------------------
(* C1 Completeness of the mixer: when the prover is honest, the path       *)
(* sequences have equal length and every bit is 0 or 1, the assignment of  *)
(* TornadoCircuit::synthesize satisfies every gate, every copy constraint  *)
(* and both public bindings for the public input                           *)
(* (nullifier * nullifier, compute_root(nullifier * secret, path)).        *)
C1_Completeness ==
    ( /\ kind = "TornadoCircuit"
      /\ pc = "verified"
      /\ Honest /\ EqualLength /\ BooleanBits
      /\ public = <<hash_value(witness.nullifier),
                    compute_root(hash_values(witness.nullifier, witness.secret),
                                 witness.path_elements, witness.path_indices)>> )
    => /\ verdict = "ok"
       /\ GatesHold(layouter, kind)
       /\ CopiesHold(layouter)
       /\ BindingsHold(layouter, public)
       /\ Cardinality(layouter.instance) = 2

C1_Witness ==
    /\ kind = "TornadoCircuit" /\ pc = "verified" /\ Honest
    /\ Len(witness.path_elements) = MaxMixerDepth
    /\ Len(witness.path_indices) = MaxMixerDepth
    /\ MaxMixerDepth >= 1
    /\ witness.path_indices[1] = 1
    /\ witness.nullifier = 2 /\ witness.secret = 2 /\ witness.path_elements[1] = 2
    /\ public = <<1, 2>>
    /\ verdict = "ok"

(* C2 Soundness of the mixer as the verifier sees it: an accepted public   *)
(* input (nullifier_hash, root) comes with one n such that nullifier_hash  *)
(* = n * n, both operands of the nullifier-hash row hold n and the first   *)
(* operand of the commitment-hash row holds n.                             *)
C2_OneNullifier ==
    (kind = "TornadoCircuit" /\ pc = "verified" /\ verdict = "ok")
    => \E n \in 0 .. (modulus - 1) :
          /\ public[1] = FMul(n, n)
          /\ layouter.advice[<<0, NullifierRow>>] = n
          /\ layouter.advice[<<1, NullifierRow>>] = n
          /\ layouter.advice[<<0, CommitmentRow>>] = n

(* C3 Negative soundness on public inputs: once a circuit (Hash, Merkle or *)
(* Mixer) accepts a public input for its witness, replacing any one slot   *)
(* of the public input by a different field value makes the check of the   *)
(* same assignment reject.                                                 *)
C3_PublicMutationRejected ==
    (pc = "verified" /\ verdict = "ok")
    => \A slot \in 1 .. Slots : \A v \in Replacements(public[slot]) :
          ~verify(layouter, kind, [public EXCEPT ![slot] = v])

C3_Witness ==
    /\ kind = "TornadoCircuit" /\ pc = "verified" /\ verdict = "ok" /\ Honest
    /\ Len(witness.path_elements) = 1 /\ Len(witness.path_indices) = 1
    /\ public[1] # public[2]

(* C4 Bit validity: a Merkle or Mixer assignment in which the swap bit of  *)
(* some Merkle step is a field value other than 0 and 1 is rejected, at    *)
(* whatever level the bit sits, also when the swap identities and the      *)
(* public bindings hold.                                                   *)
C4_BitValidity ==
    (HasPath /\ pc = "verified" /\ NonBooleanBit) => verdict = "err"

C4_Witness ==
    /\ kind = "MerkleCircuit" /\ pc = "verified"
    /\ Len(witness.path_elements) = 2 /\ EqualLength
    /\ witness.path_indices[1] \in {0, 1}
    /\ witness.path_indices[2] \notin {0, 1}
    /\ SwapGateHolds(layouter)
    /\ HashGateHolds(layouter, "merkle_hash_selector")
    /\ BindingsHold(layouter, public)
    /\ verdict = "err"
(* C5 Path-length precondition: when path_elements and path_indices have *)
(* unequal lengths, in either direction, prove_tree_root is rejected       *)
(* before any Merkle-step region is assigned and synthesis never           *)
(* completes, so that the constraint check never gives a verdict.          *)
C5_LengthPrecondition ==
    (HasPath /\ ~EqualLength)
    => /\ ~Done
       /\ \A k \in 1 .. Len(layouter.regions) : layouter.regions[k].name # "merkle prove"

(* C6 Standalone Hash circuit: the hash selector is on exactly on the hash *)
(* row, the output cell of that row is bound to public slot 0 and to no    *)
(* other, and the circuit is accepted exactly when the public value equals *)
(* a * b in the field.                                                     *)
C6_HashCircuit ==
    (kind = "HashCircuit" /\ Done)
    => /\ layouter.selectors["hash_selector"] = {layouter.regions[2].start}
       /\ layouter.instance = {<<<<2, layouter.regions[2].start>>, 0>>}
       /\ pc = "verified" =>
             (verdict = "ok" <=> public[1] = FMul(Fp(witness.a), Fp(witness.b)))

C6_Witness ==
    /\ kind = "HashCircuit" /\ pc = "verified"
    /\ witness = HashScenario
    /\ public = <<77>>
    /\ verdict = "ok"

\* The Merkle circuit accepts exactly (leaf, compute_root(leaf, path)).
MerkleAcceptsExactly ==
    (kind = "MerkleCircuit" /\ pc = "verified" /\ EqualLength /\ BooleanBits)
    => (verdict = "ok" <=>
           /\ public[1] = Fp(witness.leaf)
           /\ public[2] = compute_root(Fp(witness.leaf), witness.path_elements,
                                       witness.path_indices))

\* circuits/merkle.rs, test_merkle_circuit, once checked
MerkleTestChecked ==
    /\ modulus = ScenarioModulus
    /\ kind = "MerkleCircuit"
    /\ witness.path_indices = <<0, 1, 1, 0, 1, 0>>
    /\ pc = "verified"

(* C7 as stated: the Merkle circuit accepts exactly the leaf and the       *)
(* reference root, and the test vector leaf = 123, siblings = [2,7,6,5,5,4],*)
(* bits = [0,1,1,0,1,0] is accepted with (123, 723240) and rejected with   *)
(* (123, 723241).                                                          *)
C7_MerkleCircuitAsStated ==
    /\ MerkleAcceptsExactly
    /\ MerkleTestChecked =>
          /\ public = <<123, 723240>> => verdict = "ok"
          /\ public = <<123, 723241>> => verdict = "err"

(* C7 amended: the Merkle circuit accepts exactly the leaf and the         *)
(* reference root; the root of the test vector is 123 * 8400 = 1033200, so *)
(* the vector is accepted with (123, 1033200) and rejected with            *)
(* (123, 1033201), (123, 723240) and (123, 723241).                        *)
C7_MerkleCircuit ==
    /\ MerkleAcceptsExactly
    /\ MerkleTestChecked =>
          /\ public = <<123, 1033200>> => verdict = "ok"
          /\ public \in {<<123, 1033201>>, <<123, 723240>>, <<123, 723241>>}
                => verdict = "err"

C7_Witness ==
    /\ MerkleTestChecked
    /\ public = <<123, 1033200>>
    /\ verdict = "ok"

(* C8 The mixer's public inputs are positional: the output cell of the     *)
(* nullifier-hash row is bound to slot 0, the final digest cell to slot 1, *)
(* and there is no other binding; when the two accepted public values      *)
(* differ, the public input with the two exchanged is rejected.            *)
C8_PositionalLayout ==
    (kind = "TornadoCircuit" /\ Done)
    => /\ layouter.instance = {<<<<2, NullifierRow>>, 0>>, <<digest, 1>>}
       /\ (pc = "verified" /\ verdict = "ok" /\ public[1] # public[2])
             => ~verify(layouter, kind, <<public[2], public[1]>>)

C8_Witness ==
    /\ kind = "TornadoCircuit" /\ pc = "verified" /\ verdict = "ok"
    /\ Len(witness.path_elements) = 1 /\ EqualLength
    /\ public[1] # public[2]
    /\ digest # <<2, NullifierRow>>

C10_LaidOutInFull ==
    (HasPath /\ EqualLength)
    => /\ pc \in {"start", "commitment", "prove_tree_root", "synthesized", "verified"}
       /\ pc # "verified" => verdict = "none"
       /\ Done =>
             /\ Len(layouter.regions) = PrefixRegions + 2 * Len(witness.path_elements)
             /\ Cardinality(layouter.instance) = 2
             /\ \A k \in 1 .. Len(witness.path_elements) :
                   /\ SwapRegion(k).name = "merkle prove"
                   /\ HashRegion(k).name = "hash row"
                   /\ HashRegion(k).start = SwapRegion(k).start + 2
                   /\ SwapRegion(k).start = layouter.regions[PrefixRegions].start + 3 * k - 2
                   /\ layouter.advice[<<1, SwapRegion(k).start>>] = Fp(witness.path_elements[k])
                   /\ layouter.advice[<<2, SwapRegion(k).start>>] = Fp(witness.path_indices[k])
       /\ (pc = "verified" /\ NonBooleanBit) => verdict = "err"

(* C10 No step-local failure, in full: the layout above holds throughout   *)
(* every run, and every run with path sequences of equal length reaches    *)
(* the check of the full assignment.                                       *)
C10_NoStepLocalFailure ==
    /\ []C10_LaidOutInFull
    /\ (HasPath /\ EqualLength) ~> (pc = "verified")

C10_Witness ==
    /\ kind = "MerkleCircuit" /\ pc = "verified"
    /\ Len(witness.path_elements) = 2 /\ EqualLength
    /\ witness.path_indices[1] \notin {0, 1}
    /\ Len(layouter.regions) = 5
    /\ verdict = "err"

(* C11 Swap gate semantics: on every row with the swap selector on, in any *)
(* assignment a prover can submit, the two identities leave the pair of    *)
(* the next row no choice: it is (left, right) when the bit is 0 and       *)
(* (right, left) when the bit is 1.  The pair merkle_prove_layer computes  *)
(* satisfies both identities for every bit in {0, 1}, and it is the pair   *)
(* an honest pass puts in the next row.                                    *)
C11_SwapSemantics ==
    \A row \in SwapRows :
       /\ (SwapRowHolds(row) /\ RowBit(row) = 0)
             => <<RowLeft(row + 1), RowRight(row + 1)>> = <<RowLeft(row), RowRight(row)>>
       /\ (SwapRowHolds(row) /\ RowBit(row) = 1)
             => <<RowLeft(row + 1), RowRight(row + 1)>> = <<RowRight(row), RowLeft(row)>>
       /\ RowBit(row) \in {0, 1}
             => LET pair == swap_pair(RowLeft(row), RowRight(row), RowBit(row))
                IN  SwapIdentities(RowLeft(row), RowRight(row), RowBit(row),
                                   pair[1], pair[2])
       /\ pc # "forged"
             => <<RowLeft(row + 1), RowRight(row + 1)>>
                   = swap_pair(RowLeft(row), RowRight(row), RowBit(row))

\* A grid with a row the identities accept (bit 1, the pair exchanged) and a
\* forged row they reject (bit 0, the pair exchanged all the same).
C11_Witness ==
    /\ pc = "forged"
    /\ \E row \in SwapRows :
          /\ RowBit(row) = 1 /\ RowLeft(row) # RowRight(row)
          /\ SwapRowHolds(row)
          /\ RowLeft(row + 1) = RowRight(row)
    /\ \E row \in SwapRows :
          /\ RowBit(row) = 0 /\ RowLeft(row) # RowRight(row)
          /\ ~SwapRowHolds(row)
          /\ <<RowLeft(row + 1), RowRight(row + 1)>> = <<RowRight(row), RowLeft(row)>>

(* C12 The boolean gate is necessary: in every assignment a prover can     *)
(* submit, a row with the swap selector and the boolean selector on that   *)
(* satisfies the swap identities and the boolean gate has its bit in       *)
(* {0, 1} and its next row holding (left, right) or (right, left).  The    *)
(* swap identities alone do not give this: C12_Witness is a row they       *)
(* accept whose bit is outside {0, 1} and whose next row is the blend      *)
(* (left + bit * (right - left), right + bit * (left - right)), neither    *)
(* (left, right) nor (right, left).                                        *)
C12_BooleanGateNeeded ==
    \A row \in SwapRows :
       /\ row \in layouter.selectors["swap_bit_bool_selector"]
       /\ (SwapRowHolds(row) /\ bool_constraint(1, RowBit(row)) = 0)
             => /\ RowBit(row) \in {0, 1}
                /\ <<RowLeft(row + 1), RowRight(row + 1)>>
                      \in {<<RowLeft(row), RowRight(row)>>, <<RowRight(row), RowLeft(row)>>}
       /\ (SwapRowHolds(row) /\ RowBit(row) \notin {0, 1})
             => /\ bool_constraint(1, RowBit(row)) # 0
                /\ ~BoolGateHolds(layouter)
                /\ RowLeft(row + 1) =
                      FAdd(RowLeft(row), FMul(RowBit(row), FSub(RowRight(row), RowLeft(row))))
                /\ RowRight(row + 1) =
                      FAdd(RowRight(row), FMul(RowBit(row), FSub(RowLeft(row), RowRight(row))))

C12_Witness ==
    /\ pc = "forged"
    /\ SwapGateHolds(layouter)
    /\ ~BoolGateHolds(layouter)
    /\ \E row \in SwapRows :
          /\ RowBit(row) \notin {0, 1}
          /\ SwapRowHolds(row)
          /\ <<RowLeft(row + 1), RowRight(row + 1)>>
                \notin {<<RowLeft(row), RowRight(row)>>, <<RowRight(row), RowLeft(row)>>}

(* C13 Merkle Path Prover fold: for a leaf cell and n pairs (sibling, bit)  *)
(* in sequences of equal length, prove_tree_root has, after i turns of its *)
(* loop, laid out exactly i Merkle steps, step k (1 .. i) being one swap   *)
(* region followed by one hash region, holding sibling k and bit k of the  *)
(* path, its node cell a copy of the cell returned by step k - 1 (the leaf *)
(* cell for the first step); the cell held as digest is the one step i     *)
(* returned and its value is compute_root of the leaf over the first i     *)
(* pairs.  The loop ends after n turns, and with n = 0 the cell returned   *)
(* is the leaf cell itself.                                                *)
C13_Fold ==
    (HasPath /\ EqualLength /\ pc \in {"prove_tree_root", "synthesized", "verified"})
    => /\ i <= Len(witness.path_elements)
       /\ Done => i = Len(witness.path_elements)
       /\ Len(layouter.regions) = PrefixRegions + 2 * i
       /\ \A k \in 1 .. i :
             /\ SwapRegion(k).name = "merkle prove" /\ SwapRegion(k).rows = 2
             /\ HashRegion(k).name = "hash row" /\ HashRegion(k).rows = 1
             /\ HashRegion(k).start = SwapRegion(k).start + SwapRegion(k).rows
             /\ RowRight(SwapRegion(k).start) = Fp(witness.path_elements[k])
             /\ RowBit(SwapRegion(k).start) = Fp(witness.path_indices[k])
             /\ <<StepDigest(k - 1), <<0, SwapRegion(k).start>>>> \in layouter.copies
             /\ RowLeft(SwapRegion(k).start) = layouter.advice[StepDigest(k - 1)]
       /\ digest = StepDigest(i)
       /\ layouter.advice[digest] =
             compute_root(layouter.advice[LeafCell],
                          Prefix(witness.path_elements, i), Prefix(witness.path_indices, i))
       /\ Len(witness.path_elements) = 0 => digest = LeafCell

C13_Witness ==
    /\ kind = "MerkleCircuit" /\ pc = "synthesized"
    /\ witness = [leaf |-> 1, path_elements |-> <<2, 1>>, path_indices |-> <<1, 0>>]
    /\ i = 2
    /\ digest = <<2, 6>>
    /\ layouter.advice[digest] = 2
    /\ layouter.advice[<<0, 4>>] = layouter.advice[<<2, 3>>]

(* C14 Copy-constraint wiring of gate outputs: in the Merkle circuit the   *)
(* two input cells of the hash row of every step are copy-constrained to   *)
(* the two row-1 cells of the step's swap region, and the node cell of     *)
(* every step is copy-constrained to the cell the step before returned     *)
(* (the hash output of step k - 1, the leaf cell for the first step);      *)
(* these cells get their value by the copy, each assigned once, and in     *)
(* every assignment a prover can submit that passes the check the cells    *)
(* of each pair hold equal values.                                         *)
C14_CopyWiring ==
    (kind = "MerkleCircuit" /\ pc \in {"prove_tree_root", "synthesized", "forged"})
    => /\ layouter.copies = UNION {StepWires(k) : k \in 1 .. i}
       /\ \A k \in 1 .. i : \A w \in StepWires(k) :
             Cardinality({n \in DOMAIN layouter.assigned :
                             layouter.assigned[n] = w[2]}) = 1
       /\ (pc # "forged" \/ Satisfying)
             => \A k \in 1 .. i : \A w \in StepWires(k) :
                   layouter.advice[w[1]] = layouter.advice[w[2]]

\* A forged hash row of the second step: its inputs multiply to its output,
\* every gate holds, and only the copy constraints tell it from the pair
\* the swap region handed over.
C14_Witness ==
    /\ kind = "MerkleCircuit" /\ pc = "forged" /\ i = 2
    /\ GatesHold(layouter, kind)
    /\ ~CopiesHold(layouter)
    /\ ~Satisfying
    /\ layouter.advice[<<0, HashRegion(2).start>>] # layouter.advice[<<0, SwapRegion(2).start + 1>>]
    /\ layouter.advice[<<0, SwapRegion(2).start>>] = layouter.advice[StepDigest(1)]
    /\ layouter.advice[StepDigest(1)] # 0

(* C15 Unknown-witness propagation in the Hash Gate: every call of         *)
(* HashChip::hash lays out one row with its selector on and returns the    *)
(* output cell of that row, without error; the output is unknown whenever  *)
(* at least one of the two input cells holds an unknown value, and is      *)
(* left_value * right_value when both are known.                           *)
C15_UnknownPropagation ==
    /\ \A row \in layouter.selectors["hash_selector"] \cup layouter.selectors["merkle_hash_selector"] :
          /\ {<<0, row>>, <<1, row>>, <<2, row>>} \subseteq DOMAIN layouter.advice
          /\ (RowLeft(row) = Unknown \/ RowRight(row) = Unknown) => RowBit(row) = Unknown
          /\ (RowLeft(row) # Unknown /\ RowRight(row) # Unknown)
                => /\ RowBit(row) # Unknown
                   /\ RowBit(row) = FMul(RowLeft(row), RowRight(row))
    /\ (kind = "HashCircuit" /\ pc # "start")
          => /\ pc \in {"shaped", "synthesized", "verified"}
             /\ pc = "shaped" <=> Unknown \in {witness.a, witness.b}
             /\ Len(layouter.regions) = 2
             /\ layouter.regions[2].name = "hash row"
             /\ layouter.selectors["hash_selector"] = {layouter.regions[2].start}
             /\ layouter.instance = {<<<<2, layouter.regions[2].start>>, 0>>}
             /\ RowLeft(layouter.regions[2].start) = ValueOf(witness.a)
             /\ RowRight(layouter.regions[2].start) = ValueOf(witness.b)

C15_Witness ==
    /\ kind = "HashCircuit" /\ pc = "shaped"
    /\ witness.a = Unknown /\ witness.b = 2
    /\ layouter.selectors["hash_selector"] = {1}
    /\ layouter.advice[<<0, 1>>] = Unknown
    /\ layouter.advice[<<1, 1>>] = 2
    /\ layouter.advice[<<2, 1>>] = Unknown

(* C16 Single assignment per cell: at every point of a synthesis of the   *)
(* Hash, Merkle or Mixer circuit no cell (column, row) has been assigned   *)
(* more than once; the regions lie one after the other with no row in      *)
(* common; each hash region has assigned exactly columns 0, 1, 2 of its    *)
(* one row, and each Merkle-step region exactly columns 0, 1, 2 of its     *)
(* row 0 and columns 0, 1 of its row 1.                                    *)
C16_SingleAssignment ==
    /\ \A m, n \in DOMAIN layouter.assigned :
          m # n => layouter.assigned[m] # layouter.assigned[n]
    /\ DOMAIN layouter.advice = AssignedCells
    /\ AssignedCells =
          UNION {RegionCells(layouter.regions[k]) : k \in DOMAIN layouter.regions}
    /\ \A k \in DOMAIN layouter.regions :
          LET r == layouter.regions[k]
          IN  /\ k > 1 => r.start >= layouter.regions[k - 1].start + layouter.regions[k - 1].rows
              /\ r.name = "hash row"
                    => /\ r.rows = 1
                       /\ RegionCells(r) = {<<0, r.start>>, <<1, r.start>>, <<2, r.start>>}
              /\ r.name = "merkle prove"
                    => /\ r.rows = 2
                       /\ RegionCells(r) = {<<0, r.start>>, <<1, r.start>>, <<2, r.start>>,
                                            <<0, r.start + 1>>, <<1, r.start + 1>>}

C16_Witness ==
    /\ kind = "TornadoCircuit" /\ pc = "synthesized"
    /\ Len(witness.path_elements) = 1 /\ EqualLength
    /\ Len(layouter.regions) = 6
    /\ Len(layouter.assigned) = 18
    /\ Cardinality(AssignedCells) = 18
    /\ layouter.regions[5].name = "merkle prove"
    /\ layouter.regions[6].name = "hash row"

(* C17 Selector activation windows: at every point of every synthesis the *)
(* swap selector and the boolean selector are enabled on row 0 of each     *)
(* Merkle-step region and on no other row; the hash selectors (the Merkle  *)
(* chip's and, in the Hash and Mixer circuits, the hash chip's) are        *)
(* enabled on the one row of each hash region and on no other row, one     *)
(* selector per hash row; so row 1 of a Merkle-step region and the rows of *)
(* freshly assigned inputs (leaf, hash inputs, nullifier and secret) have  *)
(* no selector enabled, and no row has a hash selector together with the  *)
(* swap selector.                                                          *)
C17_SelectorWindows ==
    /\ Enabled("swap_selector") = FirstRows("merkle prove")
    /\ Enabled("swap_bit_bool_selector") = FirstRows("merkle prove")
    /\ Enabled("merkle_hash_selector") = HashRowsAfter("merkle prove")
    /\ Enabled("hash_selector") = FirstRows("hash row") \ HashRowsAfter("merkle prove")
    /\ Enabled("hash_selector") \cap Enabled("merkle_hash_selector") = {}
    /\ (Enabled("hash_selector") \cup Enabled("merkle_hash_selector"))
          \cap Enabled("swap_selector") = {}
    /\ \A row \in FirstRows("merkle prove") \cup FirstRows("assign leaf")
                     \cup FirstRows("private inputs") \cup FirstRows("compute hash") :
          \A sel \in Selectors :
             /\ (row \in FirstRows("merkle prove")) => (row + 1) \notin Enabled(sel)
             /\ (row \notin FirstRows("merkle prove")) => row \notin Enabled(sel)

C17_Witness ==
    /\ kind = "TornadoCircuit" /\ pc = "synthesized"
    /\ Len(witness.path_elements) = 1 /\ EqualLength
    /\ Enabled("hash_selector") = {1, 3}
    /\ Enabled("swap_selector") = {4}
    /\ Enabled("swap_bit_bool_selector") = {4}
    /\ Enabled("merkle_hash_selector") = {6}

(* C18 With the placeholder hash the root does not depend on the swap      *)
(* bits: for every leaf, every sibling sequence and every bit sequence of  *)
(* the same length with all bits in {0, 1}, the digest the circuit ends    *)
(* with is the leaf times the product of all siblings, and compute_root    *)
(* gives that same value for every boolean bit sequence of that length;    *)
(* the check accepts a public input exactly when its root slot holds that  *)
(* value (and its other slot holds the leaf, or the nullifier hash of the  *)
(* grid), a condition in which no bit occurs.                              *)
C18_BitsIrrelevant ==
    (HasPath /\ EqualLength /\ BooleanBits /\ Done)
    => LET root == FMul(layouter.advice[LeafCell], product(witness.path_elements))
           first == IF kind = "MerkleCircuit" THEN layouter.advice[LeafCell]
                    ELSE layouter.advice[<<2, NullifierRow>>]
       IN  /\ layouter.advice[digest] = root
           /\ \A bits \in BitSequences(Len(witness.path_elements)) :
                 compute_root(layouter.advice[LeafCell], witness.path_elements, bits) = root
           /\ pc = "verified" => (verdict = "ok" <=> public = <<first, root>>)

C18_Witness ==
    /\ kind = "MerkleCircuit" /\ pc = "verified" /\ verdict = "ok"
    /\ witness = [leaf |-> 1, path_elements |-> <<2, 2>>, path_indices |-> <<1, 0>>]
    /\ public = <<1, 1>>
    /\ compute_root(1, witness.path_elements, <<0, 1>>) = public[2]
    /\ RowLeft(SwapRegion(1).start + 1) = 2

====
